---- MODULE Spec2Model ----
(***************************************************************************)
(* RefreshTask (src/src/refresh_task.py): one scheduler object shared by   *)
(* caller threads (start, stop, manual_update, signal_config_change) and   *)
(* the worker threads that run _run.  Every step below is one atomic       *)
(* piece of a method: a locked section that touches only lock-protected    *)
(* state is one step, every unlocked read or write is a step of its own.   *)
(***************************************************************************)
EXTENDS Naturals, FiniteSets, TLC

\* ---------------------------------------------------------------- bounds
MaxOps == 3          \* calls made on the scheduler, all callers together
MaxTimeouts == 1     \* expiries of condition.wait(timeout=sleep_time)
MaxFaults == 1       \* exceptions raised by the collaborators (config, display)

\* ---------------------------------------------------------------- universe
Callers == {"c1", "c2"}            \* threads that call the public methods
Workers == {"w1", "w2"}            \* threading.Thread objects start() can create
None == "None"

\* RefreshAction instances handed to manual_update: two that render an image
\* (fingerprints "A" and "B") and one whose execute raises.
Actions == {"actA", "actB", "actFail"}
Fingerprint(a) == IF a = "actA" THEN "A" ELSE "B"
ExecuteRaises(a) == a = "actFail"

NoExc == [kind |-> None, cycle |-> 0]
Exc(k, n) == [kind |-> k, cycle |-> n]
NoRequest == [action |-> None, by |-> None, call |-> 0]
NoInfo == [image_hash |-> None, refresh_time |-> 0, action |-> None]
\* plugin_cycle_interval_seconds: the default of line 70 and another value.
DefaultInterval == 3600
Intervals == {DefaultInterval, 300}
\* History of a call that is not a stop().
NoStop == [alive |-> {}, first |-> FALSE, again |-> FALSE]

VARIABLES
    \* RefreshTask fields
    thread,                 \* self.thread
    lock,                   \* holder of self.lock
    running,                \* self.running
    manual_update_request,  \* self.manual_update_request
    refresh_event,          \* self.refresh_event
    refresh_result,         \* self.refresh_result.get("exception")
    \* device_config and the display
    refresh_info,           \* device_config.refresh_info (the Ledger)
    persisted,              \* refresh_info as last written by write_config
    displayed,              \* fingerprint of the last image display_image painted
    \* worker threads
    wpc, wake, brk, cyc, act, latest, image_hash, exc,
    \* caller threads
    cpc, op, joinT, outcome, callId,
    \* bookkeeping of the run
    cycles,                 \* wake-ups so far; current_dt of the latest cycle
    ops, timeouts, faults, renders,
    \* history of each manual_update call
    regCycle, relBy, served, servedExc, rendersAtCall, hashAtCall, evSetBy, stopCalled,
    \* history of each stop call, and of the start and stop calls together
    stopCtx, lifecycle,
    \* the configured interval, the worker's copy of it, and whether
    \* signal_config_change has announced the configured value
    interval, sleep_time, announced

schedVars == <<thread, lock, running, manual_update_request, refresh_event, refresh_result>>
devVars == <<refresh_info, persisted, displayed>>
workerVars == <<wpc, wake, brk, cyc, act, latest, image_hash, exc>>
callerVars == <<cpc, op, joinT, outcome, callId>>
countVars == <<cycles, ops, timeouts, faults, renders>>
histVars == <<regCycle, relBy, served, servedExc, rendersAtCall, hashAtCall, evSetBy, stopCalled,
              stopCtx, lifecycle>>
cfgVars == <<interval, sleep_time, announced>>
vars == <<schedVars, devVars, workerVars, callerVars, countVars, histVars, cfgVars>>


\* ---------------------------------------------------------------- initial state
\* Ledger loaded from the configuration file: no image yet, or image "A".
InitialHashes == {None, "A"}

\* RefreshTask.__init__, before any thread exists.
Init ==
    /\ thread = None
    /\ lock = None
    /\ running = FALSE
    /\ manual_update_request = NoRequest
    /\ refresh_event = TRUE
    /\ refresh_result = NoExc
    /\ \E h \in InitialHashes :
          /\ refresh_info = [NoInfo EXCEPT !.image_hash = h]
          /\ persisted = [NoInfo EXCEPT !.image_hash = h]
          /\ displayed = h
    /\ wpc = [w \in Workers |-> "unborn"]
    /\ wake = [w \in Workers |-> None]
    /\ brk = [w \in Workers |-> FALSE]
    /\ cyc = [w \in Workers |-> 0]
    /\ act = [w \in Workers |-> NoRequest]
    /\ latest = [w \in Workers |-> NoInfo]
    /\ image_hash = [w \in Workers |-> None]
    /\ exc = [w \in Workers |-> NoExc]
    /\ cpc = [c \in Callers |-> "idle"]
    /\ op = [c \in Callers |-> [name |-> None, action |-> None]]
    /\ joinT = [c \in Callers |-> None]
    /\ outcome = [c \in Callers |-> NoExc]
    /\ callId = [c \in Callers |-> 0]
    /\ cycles = 0
    /\ ops = 0
    /\ timeouts = 0
    /\ faults = 0
    /\ renders = 0
    /\ regCycle = [c \in Callers |-> 0]
    /\ relBy = [c \in Callers |-> 0]
    /\ served = [c \in Callers |-> 0]
    /\ servedExc = [c \in Callers |-> NoExc]
    /\ rendersAtCall = [c \in Callers |-> 0]
    /\ hashAtCall = [c \in Callers |-> None]
    /\ evSetBy = 0
    /\ stopCalled = FALSE
    /\ stopCtx = [c \in Callers |-> NoStop]
    /\ lifecycle = "fresh"
    /\ interval = DefaultInterval
    /\ sleep_time = [w \in Workers |-> 0]
    /\ announced = FALSE

\* ---------------------------------------------------------------- helpers
\* threading.Thread.is_alive(): true from start() until _run has returned.
IsAlive(w) == wpc[w] \notin {"unborn", "created", "exited"}

\* No start() has been called yet: no Thread object, no caller inside start().
NeverStarted == thread = None /\ \A c \in Callers : cpc[c] \notin {"s_create", "s_start"}

\* condition.notify_all(): every thread inside condition.wait is woken; a
\* thread that is not waiting at that moment gets nothing.
NotifyAll == [w \in Workers |-> IF wpc[w] = "waiting" THEN "woken" ELSE wpc[w]]
NotifyReason == [w \in Workers |-> IF wpc[w] = "waiting" THEN "notify" ELSE wake[w]]

\* The manual_update call (if it is still the caller's current one) whose
\* request worker w is serving.
Serves(w, c) == act[w].by = c /\ act[w].call = callId[c]
Blame(w, e) == [c \in Callers |-> IF Serves(w, c) THEN e ELSE servedExc[c]]

\* Locals of _run are rebound on every iteration.
ResetLocals(w) ==
    /\ wake' = [wake EXCEPT ![w] = None]
    /\ brk' = [brk EXCEPT ![w] = FALSE]
    /\ cyc' = [cyc EXCEPT ![w] = 0]
    /\ act' = [act EXCEPT ![w] = NoRequest]
    /\ latest' = [latest EXCEPT ![w] = NoInfo]
    /\ image_hash' = [image_hash EXCEPT ![w] = None]
    /\ exc' = [exc EXCEPT ![w] = NoExc]

\* ---------------------------------------------------------------- _run
\* Lines 68-74: take the lock, read the interval, enter condition.wait
\* (which releases the lock).
WAcquire(w) ==
    /\ wpc[w] = "top"
    /\ lock = None
    /\ wpc' = [wpc EXCEPT ![w] = "waiting"]
    /\ UNCHANGED <<schedVars, devVars, wake, brk, cyc, act, latest, image_hash, exc,
                   callerVars, countVars, histVars>>
    /\ sleep_time' = [sleep_time EXCEPT ![w] = interval]
    /\ UNCHANGED <<interval, announced>>

\* Line 69 raising: get_config fails, the with block is left, the handler runs.
WAcquireFault(w) ==
    /\ wpc[w] = "top"
    /\ lock = None
    /\ faults < MaxFaults
    /\ faults' = faults + 1
    /\ exc' = [exc EXCEPT ![w] = Exc("ConfigError", 0)]
    /\ wpc' = [wpc EXCEPT ![w] = "except"]
    /\ UNCHANGED <<schedVars, devVars, wake, brk, cyc, act, latest, image_hash,
                   callerVars, cycles, ops, timeouts, renders, histVars>>
    /\ UNCHANGED cfgVars

\* Line 74: the timeout of condition.wait expires.
Timeout(w) ==
    /\ wpc[w] = "waiting"
    /\ timeouts < MaxTimeouts
    /\ timeouts' = timeouts + 1
    /\ wpc' = [wpc EXCEPT ![w] = "woken"]
    /\ wake' = [wake EXCEPT ![w] = "timeout"]
    /\ UNCHANGED <<schedVars, devVars, brk, cyc, act, latest, image_hash, exc,
                   callerVars, cycles, ops, faults, renders, histVars>>
    /\ UNCHANGED cfgVars

\* Lines 74-76, common to every wake-up: re-acquire the lock, clear the result
\* and the completion event.  The cycle is numbered by its wake-up.
WakeCommon(w) ==
    /\ wpc[w] = "woken"
    /\ lock = None
    /\ cycles' = cycles + 1
    /\ cyc' = [cyc EXCEPT ![w] = cycles + 1]
    /\ refresh_result' = NoExc
    /\ refresh_event' = FALSE
    /\ sleep_time' = [sleep_time EXCEPT ![w] = 0]

\* Mutant of WWakeStop: the pending request is taken before the loop is left.
WWakeStop_TakesRequest(w) ==
    /\ WakeCommon(w)
    /\ ~running
    /\ brk' = [brk EXCEPT ![w] = TRUE]
    /\ wpc' = [wpc EXCEPT ![w] = "finally"]
    /\ manual_update_request' = NoRequest
    /\ UNCHANGED <<thread, lock, running, devVars,
                   wake, act, latest, image_hash, exc,
                   callerVars, ops, timeouts, faults, renders, histVars>>
    /\ UNCHANGED <<interval, announced>>

\* Lines 79-80: running is False, break out of the loop (through finally).
WWakeStop(w) ==
    /\ WakeCommon(w)
    /\ ~running
    /\ brk' = [brk EXCEPT ![w] = TRUE]
    /\ wpc' = [wpc EXCEPT ![w] = "finally"]
    /\ UNCHANGED <<thread, lock, running, manual_update_request, devVars,
                   wake, act, latest, image_hash, exc,
                   callerVars, ops, timeouts, faults, renders, histVars>>
    /\ UNCHANGED <<interval, announced>>

\* Lines 82-83 raising: get_refresh_info or _get_current_datetime fails.
WWakeFault(w) ==
    /\ WakeCommon(w)
    /\ running
    /\ faults < MaxFaults
    /\ faults' = faults + 1
    /\ exc' = [exc EXCEPT ![w] = Exc("ConfigError", cycles + 1)]
    /\ wpc' = [wpc EXCEPT ![w] = "except"]
    /\ UNCHANGED <<thread, lock, running, manual_update_request, devVars,
                   wake, brk, act, latest, image_hash,
                   callerVars, ops, timeouts, renders, histVars>>
    /\ UNCHANGED <<interval, announced>>

\* Lines 85-92 with no pending request: refresh_action stays None, the
\* locked section ends without doing anything.
WWakeIdle(w) ==
    /\ WakeCommon(w)
    /\ running
    /\ manual_update_request = NoRequest
    /\ wpc' = [wpc EXCEPT ![w] = "finally"]
    /\ UNCHANGED <<thread, lock, running, manual_update_request, devVars,
                   wake, brk, act, latest, image_hash, exc,
                   callerVars, ops, timeouts, faults, renders, histVars>>
    /\ UNCHANGED <<interval, announced>>

\* Mutant of WWakeManual: the request is taken under the lock but the lock is
\* released before the action runs.
WWakeManual_Unlocked(w) ==
    /\ WakeCommon(w)
    /\ running
    /\ manual_update_request # NoRequest
    /\ act' = [act EXCEPT ![w] = manual_update_request]
    /\ manual_update_request' = NoRequest
    /\ latest' = [latest EXCEPT ![w] = refresh_info]
    /\ lock' = None
    /\ wpc' = [wpc EXCEPT ![w] = "execute"]
    /\ served' = [c \in Callers |->
                    IF manual_update_request.by = c /\ manual_update_request.call = callId[c]
                    THEN cycles + 1 ELSE served[c]]
    /\ UNCHANGED <<thread, running, devVars, wake, brk, image_hash, exc,
                   callerVars, ops, timeouts, faults, renders,
                   regCycle, relBy, servedExc, rendersAtCall, hashAtCall, evSetBy, stopCalled,
                   stopCtx, lifecycle>>
    /\ UNCHANGED <<interval, announced>>

\* Mutant of WWakeManual: the request is taken but the slot is not emptied.
WWakeManual_KeepsSlot(w) ==
    /\ WakeCommon(w)
    /\ running
    /\ manual_update_request # NoRequest
    /\ act' = [act EXCEPT ![w] = manual_update_request]
    /\ latest' = [latest EXCEPT ![w] = refresh_info]
    /\ lock' = w
    /\ wpc' = [wpc EXCEPT ![w] = "execute"]
    /\ served' = [c \in Callers |->
                    IF manual_update_request.by = c /\ manual_update_request.call = callId[c]
                    THEN cycles + 1 ELSE served[c]]
    /\ UNCHANGED <<thread, running, manual_update_request, devVars, wake, brk, image_hash, exc,
                   callerVars, ops, timeouts, faults, renders,
                   regCycle, relBy, servedExc, rendersAtCall, hashAtCall, evSetBy, stopCalled,
                   stopCtx, lifecycle>>
    /\ UNCHANGED <<interval, announced>>

\* Lines 82-90 with a pending request: read the Ledger, take the request and
\* empty the slot; the lock stays held for the rest of the cycle.
WWakeManual(w) ==
    /\ WakeCommon(w)
    /\ running
    /\ manual_update_request # NoRequest
    /\ act' = [act EXCEPT ![w] = manual_update_request]
    /\ manual_update_request' = NoRequest
    /\ latest' = [latest EXCEPT ![w] = refresh_info]
    /\ lock' = w
    /\ wpc' = [wpc EXCEPT ![w] = "execute"]
    /\ served' = [c \in Callers |->
                    IF manual_update_request.by = c /\ manual_update_request.call = callId[c]
                    THEN cycles + 1 ELSE served[c]]
    /\ UNCHANGED <<thread, running, devVars, wake, brk, image_hash, exc,
                   callerVars, ops, timeouts, faults, renders,
                   regCycle, relBy, servedExc, rendersAtCall, hashAtCall, evSetBy, stopCalled,
                   stopCtx, lifecycle>>
    /\ UNCHANGED <<interval, announced>>

\* The RefreshInfo built on lines 97-98 and assigned on line 107.
NewInfo(w) ==
    [image_hash |-> image_hash[w], refresh_time |-> cyc[w], action |-> act[w].action]

\* Mutant of WExecute: display_image is called whatever the fingerprint.
WExecute_AlwaysDisplay(w) ==
    /\ wpc[w] = "execute"
    /\ IF ExecuteRaises(act[w].action)
       THEN /\ exc' = [exc EXCEPT ![w] = Exc("ActionExecutionError", cyc[w])]
            /\ servedExc' = Blame(w, Exc("ActionExecutionError", cyc[w]))
            /\ lock' = None
            /\ wpc' = [wpc EXCEPT ![w] = "except"]
            /\ UNCHANGED <<image_hash, renders>>
       ELSE /\ image_hash' = [image_hash EXCEPT ![w] = Fingerprint(act[w].action)]
            /\ wpc' = [wpc EXCEPT ![w] = "display"]
            /\ renders' = renders + 1
            /\ UNCHANGED <<exc, servedExc, lock>>
    /\ UNCHANGED <<thread, running, manual_update_request, refresh_event, refresh_result,
                   devVars, wake, brk, cyc, act, latest,
                   callerVars, cycles, ops, timeouts, faults,
                   regCycle, relBy, served, rendersAtCall, hashAtCall, evSetBy, stopCalled,
                   stopCtx, lifecycle>>
    /\ UNCHANGED cfgVars

\* Lines 94-100: execute the action and fingerprint the image; an action that
\* raises leaves the with block.  A new fingerprint enters display_image.
WExecute(w) ==
    /\ wpc[w] = "execute"
    /\ IF ExecuteRaises(act[w].action)
       THEN /\ exc' = [exc EXCEPT ![w] = Exc("ActionExecutionError", cyc[w])]
            /\ servedExc' = Blame(w, Exc("ActionExecutionError", cyc[w]))
            /\ lock' = None
            /\ wpc' = [wpc EXCEPT ![w] = "except"]
            /\ UNCHANGED <<image_hash, renders>>
       ELSE /\ image_hash' = [image_hash EXCEPT ![w] = Fingerprint(act[w].action)]
            /\ IF Fingerprint(act[w].action) # latest[w].image_hash
               THEN /\ wpc' = [wpc EXCEPT ![w] = "display"]
                    /\ renders' = renders + 1
               ELSE /\ wpc' = [wpc EXCEPT ![w] = "ledger"]
                    /\ UNCHANGED renders
            /\ UNCHANGED <<exc, servedExc, lock>>
    /\ UNCHANGED <<thread, running, manual_update_request, refresh_event, refresh_result,
                   devVars, wake, brk, cyc, act, latest,
                   callerVars, cycles, ops, timeouts, faults,
                   regCycle, relBy, served, rendersAtCall, hashAtCall, evSetBy, stopCalled,
                   stopCtx, lifecycle>>
    /\ UNCHANGED cfgVars

\* Line 102 returning: the image is on the device.
WDisplay(w) ==
    /\ wpc[w] = "display"
    /\ displayed' = image_hash[w]
    /\ wpc' = [wpc EXCEPT ![w] = "ledger"]
    /\ UNCHANGED <<schedVars, refresh_info, persisted, wake, brk, cyc, act, latest,
                   image_hash, exc, callerVars, countVars, histVars>>
    /\ UNCHANGED cfgVars

\* Mutant of WDisplayFault: the Ledger is assigned before display_image is
\* called, so a failing display leaves the new RefreshInfo behind.
WDisplayFault_LedgerFirst(w) ==
    /\ wpc[w] = "display"
    /\ faults < MaxFaults
    /\ faults' = faults + 1
    /\ refresh_info' = NewInfo(w)
    /\ exc' = [exc EXCEPT ![w] = Exc("DeviceError", cyc[w])]
    /\ servedExc' = Blame(w, Exc("DeviceError", cyc[w]))
    /\ lock' = None
    /\ wpc' = [wpc EXCEPT ![w] = "except"]
    /\ UNCHANGED <<thread, running, manual_update_request, refresh_event, refresh_result,
                   persisted, displayed, wake, brk, cyc, act, latest, image_hash,
                   callerVars, cycles, ops, timeouts, renders,
                   regCycle, relBy, served, rendersAtCall, hashAtCall, evSetBy, stopCalled,
                   stopCtx, lifecycle>>
    /\ UNCHANGED cfgVars

\* Line 102 raising: display_image fails, the with block is left.
WDisplayFault(w) ==
    /\ wpc[w] = "display"
    /\ faults < MaxFaults
    /\ faults' = faults + 1
    /\ exc' = [exc EXCEPT ![w] = Exc("DeviceError", cyc[w])]
    /\ servedExc' = Blame(w, Exc("DeviceError", cyc[w]))
    /\ lock' = None
    /\ wpc' = [wpc EXCEPT ![w] = "except"]
    /\ UNCHANGED <<thread, running, manual_update_request, refresh_event, refresh_result,
                   devVars, wake, brk, cyc, act, latest, image_hash,
                   callerVars, cycles, ops, timeouts, renders,
                   regCycle, relBy, served, rendersAtCall, hashAtCall, evSetBy, stopCalled,
                   stopCtx, lifecycle>>
    /\ UNCHANGED cfgVars

\* Mutant of WLedger: the new Ledger keeps the fingerprint of the old one.
WLedger_KeepsOldHash(w) ==
    /\ wpc[w] = "ledger"
    /\ refresh_info' = [NewInfo(w) EXCEPT !.image_hash = latest[w].image_hash]
    /\ persisted' = [NewInfo(w) EXCEPT !.image_hash = latest[w].image_hash]
    /\ lock' = None
    /\ wpc' = [wpc EXCEPT ![w] = "finally"]
    /\ UNCHANGED <<thread, running, manual_update_request, refresh_event, refresh_result,
                   displayed, wake, brk, cyc, act, latest, image_hash, exc,
                   callerVars, countVars, histVars>>
    /\ UNCHANGED cfgVars

\* Lines 107-108: replace the Ledger and persist it; the with block ends.
WLedger(w) ==
    /\ wpc[w] = "ledger"
    /\ refresh_info' = NewInfo(w)
    /\ persisted' = NewInfo(w)
    /\ lock' = None
    /\ wpc' = [wpc EXCEPT ![w] = "finally"]
    /\ UNCHANGED <<thread, running, manual_update_request, refresh_event, refresh_result,
                   displayed, wake, brk, cyc, act, latest, image_hash, exc,
                   callerVars, countVars, histVars>>
    /\ UNCHANGED cfgVars

\* Line 108 raising: the Ledger was assigned but write_config fails.
WLedgerFault(w) ==
    /\ wpc[w] = "ledger"
    /\ faults < MaxFaults
    /\ faults' = faults + 1
    /\ refresh_info' = NewInfo(w)
    /\ exc' = [exc EXCEPT ![w] = Exc("ConfigError", cyc[w])]
    /\ servedExc' = Blame(w, Exc("ConfigError", cyc[w]))
    /\ lock' = None
    /\ wpc' = [wpc EXCEPT ![w] = "except"]
    /\ UNCHANGED <<thread, running, manual_update_request, refresh_event, refresh_result,
                   persisted, displayed, wake, brk, cyc, act, latest, image_hash,
                   callerVars, cycles, ops, timeouts, renders,
                   regCycle, relBy, served, rendersAtCall, hashAtCall, evSetBy, stopCalled,
                   stopCtx, lifecycle>>
    /\ UNCHANGED cfgVars

\* Mutant of WExcept: the exception is not caught at the cycle boundary; it
\* leaves the loop through finally and ends the thread.
WExcept_Dies(w) ==
    /\ wpc[w] = "except"
    /\ brk' = [brk EXCEPT ![w] = TRUE]
    /\ wpc' = [wpc EXCEPT ![w] = "finally"]
    /\ UNCHANGED <<schedVars, devVars, wake, cyc, act, latest, image_hash, exc,
                   callerVars, countVars, histVars>>
    /\ UNCHANGED cfgVars

\* Lines 110-112: the handler stores the exception in the current result.
WExcept(w) ==
    /\ wpc[w] = "except"
    /\ refresh_result' = exc[w]
    /\ wpc' = [wpc EXCEPT ![w] = "finally"]
    /\ UNCHANGED <<thread, lock, running, manual_update_request, refresh_event,
                   devVars, wake, brk, cyc, act, latest, image_hash, exc,
                   callerVars, countVars, histVars>>
    /\ UNCHANGED cfgVars

\* Lines 113-114: set the completion event, then loop or (after break) return.
WFinally(w) ==
    /\ wpc[w] = "finally"
    /\ refresh_event' = TRUE
    /\ evSetBy' = cyc[w]
    /\ wpc' = [wpc EXCEPT ![w] = IF brk[w] THEN "exited" ELSE "top"]
    /\ ResetLocals(w)
    /\ UNCHANGED <<thread, lock, running, manual_update_request, refresh_result,
                   devVars, callerVars, countVars,
                   regCycle, relBy, served, servedExc, rendersAtCall, hashAtCall, stopCalled,
                   stopCtx, lifecycle>>
    /\ UNCHANGED cfgVars


\* ---------------------------------------------------------------- callers
\* A caller thread enters a method: the call is counted and numbered, and the
\* history of the caller's previous call is dropped.
Enter(c, name, a) ==
    /\ cpc[c] = "idle"
    /\ ops < MaxOps
    /\ ops' = ops + 1
    /\ callId' = [callId EXCEPT ![c] = ops + 1]
    /\ op' = [op EXCEPT ![c] = [name |-> name, action |-> a]]
    /\ outcome' = [outcome EXCEPT ![c] = NoExc]
    /\ joinT' = [joinT EXCEPT ![c] = None]
    /\ regCycle' = [regCycle EXCEPT ![c] = 0]
    /\ relBy' = [relBy EXCEPT ![c] = 0]
    /\ served' = [served EXCEPT ![c] = 0]
    /\ servedExc' = [servedExc EXCEPT ![c] = NoExc]
    /\ rendersAtCall' = [rendersAtCall EXCEPT ![c] = renders]
    /\ hashAtCall' = [hashAtCall EXCEPT ![c] = refresh_info.image_hash]
    /\ stopCtx' = [stopCtx EXCEPT ![c] =
                      IF name = "stop"
                      THEN [alive |-> {w \in Workers : IsAlive(w)},
                            first |-> NeverStarted,
                            again |-> stopCalled]
                      ELSE NoStop]
    /\ UNCHANGED <<cycles, timeouts, faults, renders, evSetBy>>

\* The method returns (e = NoExc) or raises e to its caller.
Leave(c, e) ==
    /\ cpc' = [cpc EXCEPT ![c] = "idle"]
    /\ outcome' = [outcome EXCEPT ![c] = e]

Unborn == {w \in Workers : wpc[w] = "unborn"}
\* Thread objects are created in a fixed order.
Rank(w) == IF w = "w1" THEN 1 ELSE 2
Creating == {c \in Callers : cpc[c] = "s_create"}
\* Callers inside start(), past the test of line 34.
InStart == {c \in Callers : cpc[c] \in {"s_create", "s_start"}}

\* start(), line 34: no thread yet, or the thread is not alive.  (The call is
\* made only while a Thread object is left for it to create.)
StartCheck(c) ==
    /\ Enter(c, "start", None)
    /\ Cardinality(Unborn) > Cardinality(Creating)
    /\ IF thread = None \/ ~IsAlive(thread)
       THEN cpc' = [cpc EXCEPT ![c] = "s_create"]
       ELSE cpc' = cpc
    /\ lifecycle' = IF lifecycle \in {"stopped", "restarted"} THEN "restarted" ELSE "started"
    /\ UNCHANGED <<schedVars, devVars, workerVars, stopCalled>>
    /\ UNCHANGED cfgVars

\* start(), lines 36-37: self.thread = Thread(...); self.running = True.
StartCreate(c) ==
    /\ cpc[c] = "s_create"
    /\ LET w == CHOOSE x \in Unborn : \A y \in Unborn : Rank(x) <= Rank(y)
       IN /\ thread' = w
          /\ wpc' = [wpc EXCEPT ![w] = "created"]
    /\ running' = TRUE
    /\ cpc' = [cpc EXCEPT ![c] = "s_start"]
    /\ UNCHANGED <<lock, manual_update_request, refresh_event, refresh_result, devVars,
                   wake, brk, cyc, act, latest, image_hash, exc,
                   op, joinT, outcome, callId, countVars, histVars>>
    /\ UNCHANGED cfgVars

\* start(), line 38: self.thread.start() on whatever self.thread is now; a
\* Thread that was already started raises RuntimeError.
StartThread(c) ==
    /\ cpc[c] = "s_start"
    /\ IF wpc[thread] = "created"
       THEN /\ wpc' = [wpc EXCEPT ![thread] = "top"]
            /\ Leave(c, NoExc)
       ELSE /\ wpc' = wpc
            /\ Leave(c, Exc("RuntimeError", 0))
    /\ UNCHANGED <<schedVars, devVars, wake, brk, cyc, act, latest, image_hash, exc,
                   op, joinT, callId, countVars, histVars>>
    /\ UNCHANGED cfgVars

\* stop(), lines 42-44: under the lock, running = False and notify_all.
StopSignal(c) ==
    /\ Enter(c, "stop", None)
    /\ lock = None
    /\ running' = FALSE
    /\ wpc' = NotifyAll
    /\ wake' = NotifyReason
    /\ stopCalled' = TRUE
    /\ lifecycle' = IF thread # None /\ InStart = {} THEN "stopping" ELSE lifecycle
    /\ cpc' = [cpc EXCEPT ![c] = "st_join"]
    /\ UNCHANGED <<thread, lock, manual_update_request, refresh_event, refresh_result,
                   devVars, brk, cyc, act, latest, image_hash, exc>>
    /\ UNCHANGED cfgVars

\* stop(), lines 45-47: no thread, nothing to join; join() of a Thread that was
\* never started raises RuntimeError; otherwise block in join().
StopJoin(c) ==
    /\ cpc[c] = "st_join"
    /\ IF thread = None
       THEN Leave(c, NoExc) /\ UNCHANGED joinT
       ELSE IF wpc[thread] = "created"
            THEN Leave(c, Exc("RuntimeError", 0)) /\ UNCHANGED joinT
            ELSE /\ cpc' = [cpc EXCEPT ![c] = "joining"]
                 /\ joinT' = [joinT EXCEPT ![c] = thread]
                 /\ UNCHANGED outcome
    /\ UNCHANGED <<schedVars, devVars, workerVars, op, callId, countVars, histVars>>
    /\ UNCHANGED cfgVars

\* Mutant of StopJoined: join() returns without waiting for the thread.
StopJoined_NoWait(c) ==
    /\ cpc[c] = "joining"
    /\ Leave(c, NoExc)
    /\ lifecycle' = IF lifecycle = "stopping" THEN "stopped" ELSE lifecycle
    /\ UNCHANGED <<schedVars, devVars, workerVars, op, joinT, callId, countVars,
                   regCycle, relBy, served, servedExc, rendersAtCall, hashAtCall, evSetBy,
                   stopCalled, stopCtx>>
    /\ UNCHANGED cfgVars

\* stop(), line 47: join() returns once the joined thread has exited.
StopJoined(c) ==
    /\ cpc[c] = "joining"
    /\ wpc[joinT[c]] = "exited"
    /\ Leave(c, NoExc)
    /\ lifecycle' = IF lifecycle = "stopping" THEN "stopped" ELSE lifecycle
    /\ UNCHANGED <<schedVars, devVars, workerVars, op, joinT, callId, countVars,
                   regCycle, relBy, served, servedExc, rendersAtCall, hashAtCall, evSetBy,
                   stopCalled, stopCtx>>
    /\ UNCHANGED cfgVars

\* Mutant of ManualCheck: the request is registered without testing running.
ManualCheck_NoTest(c, a) ==
    /\ Enter(c, "manual_update", a)
    /\ cpc' = [cpc EXCEPT ![c] = "m_register"]
    /\ UNCHANGED <<schedVars, devVars, workerVars, stopCalled, lifecycle>>
    /\ UNCHANGED cfgVars

\* manual_update(), line 118: the unlocked test of self.running; when it is
\* False the call only logs a warning (line 130).
ManualCheck(c, a) ==
    /\ Enter(c, "manual_update", a)
    /\ IF running
       THEN cpc' = [cpc EXCEPT ![c] = "m_register"]
       ELSE cpc' = cpc
    /\ UNCHANGED <<schedVars, devVars, workerVars, stopCalled, lifecycle>>
    /\ UNCHANGED cfgVars

\* manual_update(), lines 119-124: under the lock, store the request, replace
\* the result, clear the completion event, notify_all.
ManualRegister(c) ==
    /\ cpc[c] = "m_register"
    /\ lock = None
    /\ manual_update_request' = [action |-> op[c].action, by |-> c, call |-> callId[c]]
    /\ refresh_result' = NoExc
    /\ refresh_event' = FALSE
    /\ wpc' = NotifyAll
    /\ wake' = NotifyReason
    /\ regCycle' = [regCycle EXCEPT ![c] = cycles + 1]
    /\ cpc' = [cpc EXCEPT ![c] = "m_wait"]
    /\ UNCHANGED <<thread, lock, running, devVars, brk, cyc, act, latest, image_hash, exc,
                   op, joinT, outcome, callId, countVars,
                   relBy, served, servedExc, rendersAtCall, hashAtCall, evSetBy, stopCalled,
                   stopCtx, lifecycle>>
    /\ UNCHANGED cfgVars

\* manual_update(), line 126: refresh_event.wait() returns once the event is set.
ManualWait(c) ==
    /\ cpc[c] = "m_wait"
    /\ refresh_event
    /\ relBy' = [relBy EXCEPT ![c] = evSetBy]
    /\ cpc' = [cpc EXCEPT ![c] = "m_read"]
    /\ UNCHANGED <<schedVars, devVars, workerVars, op, joinT, outcome, callId, countVars,
                   regCycle, served, servedExc, rendersAtCall, hashAtCall, evSetBy, stopCalled,
                   stopCtx, lifecycle>>
    /\ UNCHANGED cfgVars

\* manual_update(), line 127: first read of refresh_result.get("exception").
ManualRead(c) ==
    /\ cpc[c] = "m_read"
    /\ IF refresh_result = NoExc
       THEN Leave(c, NoExc)
       ELSE cpc' = [cpc EXCEPT ![c] = "m_raise"] /\ UNCHANGED outcome
    /\ UNCHANGED <<schedVars, devVars, workerVars, op, joinT, callId, countVars, histVars>>
    /\ UNCHANGED cfgVars

\* manual_update(), line 128: second read, raised; `raise None` is a TypeError.
ManualRaise(c) ==
    /\ cpc[c] = "m_raise"
    /\ Leave(c, IF refresh_result = NoExc THEN Exc("TypeError", 0) ELSE refresh_result)
    /\ UNCHANGED <<schedVars, devVars, workerVars, op, joinT, callId, countVars, histVars>>
    /\ UNCHANGED cfgVars

\* signal_config_change(), line 134: the unlocked test of self.running.
SignalCheck(c) ==
    /\ Enter(c, "signal_config_change", None)
    /\ IF running
       THEN cpc' = [cpc EXCEPT ![c] = "g_notify"]
       ELSE cpc' = cpc
    /\ UNCHANGED <<schedVars, devVars, workerVars, stopCalled, lifecycle>>
    /\ UNCHANGED cfgVars

\* Mutant of SignalNotify: the call returns without notify_all.
SignalNotify_NoNotify(c) ==
    /\ cpc[c] = "g_notify"
    /\ lock = None
    /\ Leave(c, NoExc)
    /\ UNCHANGED <<schedVars, devVars, workerVars,
                   op, joinT, callId, countVars, histVars>>
    /\ announced' = TRUE
    /\ UNCHANGED <<interval, sleep_time>>

\* signal_config_change(), lines 135-136: notify_all under the lock.
SignalNotify(c) ==
    /\ cpc[c] = "g_notify"
    /\ lock = None
    /\ wpc' = NotifyAll
    /\ wake' = NotifyReason
    /\ Leave(c, NoExc)
    /\ UNCHANGED <<schedVars, devVars, brk, cyc, act, latest, image_hash, exc,
                   op, joinT, callId, countVars, histVars>>
    /\ announced' = TRUE
    /\ UNCHANGED <<interval, sleep_time>>

\* A caller thread stores another plugin_cycle_interval_seconds in the
\* configuration, the value that line 69 reads.
ConfigChange(c) ==
    /\ Enter(c, "update_config", None)
    /\ \E i \in Intervals \ {interval} : interval' = i
    /\ announced' = FALSE
    /\ UNCHANGED <<schedVars, devVars, workerVars, cpc, stopCalled, lifecycle, sleep_time>>

\* ---------------------------------------------------------------- specification
Next ==
    \/ \E c \in Callers : StartCheck(c)
    \/ \E c \in Callers : StartCreate(c)
    \/ \E c \in Callers : StartThread(c)
    \/ \E c \in Callers : StopSignal(c)
    \/ \E c \in Callers : StopJoin(c)
    \/ \E c \in Callers : StopJoined(c)
    \/ \E c \in Callers, a \in Actions : ManualCheck(c, a)
    \/ \E c \in Callers : ManualRegister(c)
    \/ \E c \in Callers : ManualWait(c)
    \/ \E c \in Callers : ManualRead(c)
    \/ \E c \in Callers : ManualRaise(c)
    \/ \E c \in Callers : SignalCheck(c)
    \/ \E c \in Callers : SignalNotify(c)
    \/ \E c \in Callers : ConfigChange(c)
    \/ \E w \in Workers : WAcquire(w)
    \/ \E w \in Workers : WAcquireFault(w)
    \/ \E w \in Workers : Timeout(w)
    \/ \E w \in Workers : WWakeStop(w)
    \/ \E w \in Workers : WWakeFault(w)
    \/ \E w \in Workers : WWakeIdle(w)
    \/ \E w \in Workers : WWakeManual(w)
    \/ \E w \in Workers : WExecute(w)
    \/ \E w \in Workers : WDisplay(w)
    \/ \E w \in Workers : WDisplayFault(w)
    \/ \E w \in Workers : WLedger(w)
    \/ \E w \in Workers : WLedgerFault(w)
    \/ \E w \in Workers : WExcept(w)
    \/ \E w \in Workers : WFinally(w)

Spec == Init /\ [][Next]_vars

\* One caller thread making its calls one after the other (the worker threads
\* and the timer run concurrently with it).
NextSolo ==
    \/ StartCheck("c1")
    \/ StartCreate("c1")
    \/ StartThread("c1")
    \/ StopSignal("c1")
    \/ StopJoin("c1")
    \/ StopJoined("c1")
    \/ \E a \in Actions : ManualCheck("c1", a)
    \/ ManualRegister("c1")
    \/ ManualWait("c1")
    \/ ManualRead("c1")
    \/ ManualRaise("c1")
    \/ SignalCheck("c1")
    \/ SignalNotify("c1")
    \/ ConfigChange("c1")
    \/ \E w \in Workers : WAcquire(w)
    \/ \E w \in Workers : WAcquireFault(w)
    \/ \E w \in Workers : Timeout(w)
    \/ \E w \in Workers : WWakeStop(w)
    \/ \E w \in Workers : WWakeFault(w)
    \/ \E w \in Workers : WWakeIdle(w)
    \/ \E w \in Workers : WWakeManual(w)
    \/ \E w \in Workers : WExecute(w)
    \/ \E w \in Workers : WDisplay(w)
    \/ \E w \in Workers : WDisplayFault(w)
    \/ \E w \in Workers : WLedger(w)
    \/ \E w \in Workers : WLedgerFault(w)
    \/ \E w \in Workers : WExcept(w)
    \/ \E w \in Workers : WFinally(w)

SpecSolo == Init /\ [][NextSolo]_vars


\* ---------------------------------------------------------------- properties
InRender(w) == wpc[w] = "display"
InLedgerWrite(w) == wpc[w] = "ledger"
InCycle(w) == wpc[w] \in {"execute", "display", "ledger"}

\* A manual_update call of caller c that has returned or raised.
ManualDone(c) == cpc[c] = "idle" /\ op[c].name = "manual_update"
\* ... and that had registered its request (the scheduler was running).
Registered(c) == regCycle[c] > 0

\* C1: at most one display_image call of the scheduler is in progress at any
\* time, and no Ledger write overlaps another cycle's render or Ledger write;
\* both happen only inside the locked section of the worker that runs them.
C1_Serialized ==
    \A w \in Workers :
        /\ InCycle(w) => lock = w
        /\ \A v \in Workers \ {w} :
              /\ ~(InRender(w) /\ InRender(v))
              /\ ~(InLedgerWrite(w) /\ (InRender(v) \/ InLedgerWrite(v)))

\* Two workers are alive; one is inside display_image while the other has been
\* woken and wants the lock.
C1_Witness ==
    \E w \in Workers : \E v \in Workers \ {w} : InRender(w) /\ wpc[v] = "woken"

\* C2: a manual_update call that registered its request is released from
\* refresh_event.wait() only by the completion of a cycle that woke after the
\* registration (checked on the runs in which no collaborator raises).
C2_ReleasedByOwnCycle ==
    faults = 0 =>
    \A c \in Callers : cpc[c] \in {"m_read", "m_raise"} => relBy[c] >= regCycle[c]

\* C3: when the cycle that consumed a manual_update request raised, the call
\* raises exactly that exception (checked on the runs in which the action's
\* execute is the only thing that raises).
C3_ExactException ==
    faults = 0 =>
    \A c \in Callers :
        (ManualDone(c) /\ servedExc[c] # NoExc) => outcome[c] = servedExc[c]

\* C4: a cycle that fails in execute or in display_image leaves the Ledger as
\* the cycle found it and writes nothing: no step of the cycle up to and
\* including the failing one changes refresh_info or the persisted copy.
C4_NoPartialUpdate ==
    [][\A w \in Workers :
          /\ (wpc[w] \in {"woken", "execute", "display"} /\ wpc'[w] \in {"execute", "display", "except"})
                => (refresh_info' = refresh_info /\ persisted' = persisted)
          /\ (wpc[w] \in {"execute", "display"} /\ wpc'[w] = "except")
                => refresh_info' = latest[w]]_vars

\* display_image has raised in a cycle whose image differs from the Ledger.
C4_Witness ==
    \E w \in Workers :
        /\ wpc[w] = "except"
        /\ exc[w].kind = "DeviceError"
        /\ image_hash[w] # refresh_info.image_hash
        /\ refresh_info = latest[w]

\* C5: no manual_update caller is blocked on the completion event while every
\* worker thread that was started has exited and no start() is under way.
C5_NoCallerAgainstDeadWorker ==
    (/\ thread # None
     /\ \A w \in Workers : ~IsAlive(w) /\ wpc[w] # "created"
     /\ \A c \in Callers : cpc[c] \notin {"s_create", "s_start"})
    => \A c \in Callers : ~(cpc[c] = "m_wait" /\ ~refresh_event)

\* C6: manual_update called while running is False returns at once without
\* raising and leaves the request slot, the completion event, the result and
\* the Ledger unchanged.
C6_NoOpWhenNotRunning ==
    [][\A c \in Callers :
          (cpc[c] = "idle" /\ callId'[c] # callId[c] /\ op'[c].name = "manual_update" /\ ~running)
          => /\ cpc'[c] = "idle"
             /\ outcome'[c] = NoExc
             /\ UNCHANGED <<manual_update_request, refresh_event, refresh_result,
                            refresh_info, persisted>>]_vars

\* A manual_update made after stop() has returned, that came back as a no-op.
C6_Witness ==
    \E c \in Callers :
        /\ ManualDone(c) /\ ~Registered(c) /\ outcome[c] = NoExc
        /\ stopCalled /\ ~running
        /\ \A w \in Workers : wpc[w] \in {"unborn", "exited"}
        /\ \E w \in Workers : wpc[w] = "exited"

\* C7: a manual_update on a running scheduler whose action's fingerprint
\* differs from the Ledger's returns without exception after exactly one
\* display_image call, with the Ledger's image_hash equal to the new fingerprint
\* (checked on the runs in which no collaborator raises).
C7_NewFingerprintRendered ==
    faults = 0 =>
    \A c \in Callers :
        (/\ ManualDone(c) /\ Registered(c)
         /\ ~ExecuteRaises(op[c].action)
         /\ Fingerprint(op[c].action) # hashAtCall[c])
        => /\ outcome[c] = NoExc
           /\ renders = rendersAtCall[c] + 1
           /\ refresh_info.image_hash = Fingerprint(op[c].action)

DefaultFingerprint == "A"

\* C9: a cycle woken by the timer with no manual request pending executes the
\* default action: when it completes, the Ledger carries the default action's
\* fingerprint and the cycle's refresh_time, and that image is on the device.
C9_PeriodicCycleRefreshes ==
    \A w \in Workers :
        (/\ wpc[w] = "finally" /\ wake[w] = "timeout"
         /\ ~brk[w] /\ act[w] = NoRequest /\ exc[w] = NoExc)
        => /\ refresh_info.image_hash = DefaultFingerprint
           /\ refresh_info.refresh_time = cyc[w]
           /\ displayed = DefaultFingerprint

\* C10: an exception in a cycle never ends the worker: the handler is followed
\* by finally, finally sets the completion event and loops, and the worker
\* returns only through the break taken after stop() set running to False.
C10_WorkerSurvives ==
    [][\A w \in Workers :
          /\ (wpc[w] = "except" /\ wpc'[w] # "except")
                => (wpc'[w] = "finally" /\ ~brk'[w])
          /\ (wpc[w] = "finally" /\ wpc'[w] # "finally")
                => (refresh_event' /\ wpc'[w] = IF brk[w] THEN "exited" ELSE "top")
          /\ (~brk[w] /\ brk'[w]) => (~running /\ stopCalled)
          /\ (wpc[w] # "exited" /\ wpc'[w] = "exited") => (brk[w] /\ stopCalled)]_vars

\* After a cycle of the only worker failed, that worker is executing a later
\* manual request.
C10_Witness ==
    \E w \in Workers :
        /\ wpc[w] = "execute"
        /\ faults > 0
        /\ ~stopCalled
        /\ \A v \in Workers \ {w} : wpc[v] = "unborn"

\* ---------------------------------------------------------------- C11
\* The caller's latest call was stop() and it is over.
StopDone(c) == cpc[c] = "idle" /\ op[c].name = "stop"

\* C11: stop() does not raise when it was called before any start() or after
\* an earlier stop(), and when it returns every worker that was alive when it
\* took the lock has exited (so no cycle is in flight at its return).  Stated
\* on runs without collaborator faults.
C11_StopJoinsWorker ==
    faults = 0 =>
        \A c \in Callers :
            StopDone(c) =>
                /\ (stopCtx[c].first \/ stopCtx[c].again) => outcome[c] = NoExc
                /\ outcome[c] = NoExc => \A w \in stopCtx[c].alive : wpc[w] = "exited"

\* ---------------------------------------------------------------- C12
\* C12: manual_update() and stop() wake the loop without the timer: no worker
\* sits in condition.wait while a request is registered or running is False,
\* since only the timeout could then take it to the cycle that observes them.
\* Stated on runs without collaborator faults.
C12_WakesImmediately ==
    faults = 0 =>
        \A w \in Workers :
            wpc[w] = "waiting" => (running /\ manual_update_request = NoRequest)

\* ---------------------------------------------------------------- C13
\* The worker threads that are alive.
AliveWorkers == {w \in Workers : IsAlive(w)}

\* C13: start() is idempotent: no step leaves more than one worker alive, and
\* a start() entered while self.thread is alive returns at once, having
\* created nothing and changed no state of the scheduler, device or workers.
C13_StartIdempotent ==
    [][/\ Cardinality(AliveWorkers') <= 1
       /\ \A c \in Callers :
            (/\ callId'[c] # callId[c]
             /\ op'[c].name = "start"
             /\ thread # None
             /\ IsAlive(thread))
            => (cpc'[c] = "idle" /\ UNCHANGED <<schedVars, devVars, workerVars>>)]_vars

\* ---------------------------------------------------------------- C14
\* Worker w is inside a cycle that found running True (lines 82-112).
RunningCycle(w) == cyc[w] > 0 /\ ~brk[w]

\* C14 as stated: once a stop() that joined the worker has returned, no worker
\* runs a cycle any more, whatever is called afterwards (start() included).
\* Stated on runs without collaborator faults.
C14_StoppedIsTerminal ==
    (faults = 0 /\ lifecycle \in {"stopped", "restarted"}) =>
        \A w \in Workers : ~RunningCycle(w)

\* C14 amended: once a stop() that joined the worker has returned, and until
\* start() is called again, running stays False and no worker runs a cycle,
\* renders or writes the Ledger, whatever manual_update() and
\* signal_config_change() calls are made.
C14_StoppedUntilRestart ==
    lifecycle = "stopped" =>
        /\ ~running
        /\ \A w \in Workers : ~RunningCycle(w) /\ wpc[w] \notin {"execute", "display", "ledger"}

\* A manual_update() or signal_config_change() made after stop() has returned.
C14_Witness ==
    /\ lifecycle = "stopped"
    /\ cpc["c1"] = "idle"
    /\ op["c1"].name \in {"manual_update", "signal_config_change"}
    /\ cpc["c2"] = "idle" /\ op["c2"].name = None
    /\ \E w \in Workers : wpc[w] = "exited"

\* ---------------------------------------------------------------- C15
\* Worker w is inside the part of a cycle that runs the action, renders or
\* writes the Ledger (lines 92-108).
Working(w) == wpc[w] \in {"execute", "display", "ledger"}

\* C15: stop() is cooperative.  The step that clears running finds no worker
\* inside a cycle's work and changes nothing of the device, the Ledger or a
\* worker's locals; while running is False no worker is rendering or writing
\* the Ledger; a wake-up that finds running False breaks out without reading
\* the Ledger and without taking the pending request, and then the thread ends.
C15_StopIsCooperative ==
    [][/\ (running /\ ~running') =>
            /\ \A w \in Workers : ~Working(w)
            /\ \A w \in Workers :
                  wpc'[w] = wpc[w] \/ (wpc[w] = "waiting" /\ wpc'[w] = "woken")
            /\ UNCHANGED <<devVars, act, latest, image_hash, renders,
                           manual_update_request>>
       /\ ~running' => \A w \in Workers : ~Working(w)'
       /\ \A w \in Workers :
            (wpc[w] = "woken" /\ wpc'[w] # "woken" /\ ~running) =>
                /\ brk'[w] /\ wpc'[w] = "finally"
                /\ act'[w] = NoRequest /\ latest'[w] = NoInfo
                /\ UNCHANGED <<manual_update_request, devVars, renders>>
       /\ \A w \in Workers :
            (wpc[w] = "finally" /\ brk[w] /\ wpc'[w] # wpc[w]) => wpc'[w] = "exited"]_vars

\* A request registered before the worker's last wake-up is still in the slot
\* after the worker, woken with running False, has exited.
C15_Witness ==
    /\ faults = 0 /\ ~running /\ stopCalled
    /\ \E w \in Workers : wpc[w] = "exited"
    /\ \E c \in Callers :
          /\ manual_update_request.by = c
          /\ manual_update_request.call = callId[c]
          /\ regCycle[c] > 0 /\ regCycle[c] <= evSetBy

\* ---------------------------------------------------------------- C16
\* The request of c's current manual_update call is in the slot.
InSlot(c) == manual_update_request.by = c /\ manual_update_request.call = callId[c]

\* The request of c's current call was registered, has not been overwritten
\* (it is in the slot or was picked up), stop() was never called, and a
\* wake-up has happened since the registration.
CycleSinceRegistration(c) ==
    /\ regCycle[c] > 0
    /\ InSlot(c) \/ served[c] > 0
    /\ ~stopCalled
    /\ cycles >= regCycle[c]

\* C16 as stated: such a request was picked up by the first wake-up after its
\* registration.
C16_FirstCycleConsumes ==
    \A c \in Callers : CycleSinceRegistration(c) => served[c] = regCycle[c]

\* C16 amended: the request is picked up by the first cycle after its
\* registration that reaches the slot (lines 85-90): by the first wake-up when
\* no collaborator has failed, and in general by any wake-up that finds running
\* True and does not raise at lines 82-83.  The pickup hands exactly the slot's
\* action to the cycle and empties the slot, which stays empty while the cycle
\* works, and no call's request is picked up twice.
C16_ConsumedByFirstCycleReachingSlot ==
    [][/\ \A c \in Callers :
            (faults' = 0 /\ CycleSinceRegistration(c)') => served'[c] = regCycle'[c]
       /\ \A w \in Workers :
            (/\ wpc[w] = "woken" /\ wpc'[w] \notin {"woken", "except"}
             /\ running /\ manual_update_request # NoRequest)
            => /\ wpc'[w] = "execute"
               /\ act'[w] = manual_update_request
               /\ manual_update_request' = NoRequest
       /\ \A w \in Workers :
            Working(w)' => (manual_update_request' = NoRequest /\ act'[w] # NoRequest)
       /\ \A c \in Callers :
            served'[c] # served[c] => (served[c] = 0 \/ served'[c] = 0)]_vars

\* The first wake-up after a registration has picked the request up and the
\* worker is about to execute it.
C16_Witness ==
    \E c \in Callers, w \in Workers :
        /\ ~stopCalled
        /\ served[c] = regCycle[c] /\ regCycle[c] > 0
        /\ Serves(w, c) /\ wpc[w] = "execute"

\* ---------------------------------------------------------------- C17
\* C17: signal_config_change() never forces a render.  A wake-up by notify
\* that finds running True and the slot empty starts no action and no render
\* and leaves the Ledger, the device and the slot as they are; once a
\* signal_config_change() that found running True has returned, and until the
\* interval is changed again, every worker inside condition.wait is waiting
\* with the configured interval; a signal_config_change() that finds running
\* False returns at once and changes and wakes nothing.
C17_SignalForcesNoRender ==
    [][/\ \A w \in Workers :
            (/\ wpc[w] = "woken" /\ wpc'[w] # "woken" /\ wake[w] = "notify"
             /\ running /\ manual_update_request = NoRequest)
            => /\ wpc'[w] \in {"finally", "except"}
               /\ act'[w] = NoRequest
               /\ UNCHANGED <<devVars, manual_update_request, renders>>
       /\ announced' => \A w \in Workers : wpc'[w] = "waiting" => sleep_time'[w] = interval'
       /\ \A c \in Callers :
            (callId'[c] # callId[c] /\ op'[c].name = "signal_config_change" /\ ~running)
            => (cpc'[c] = "idle" /\ UNCHANGED <<schedVars, devVars, workerVars, cfgVars>>)]_vars

\* The interval was changed while a worker was waiting with the old one, and
\* the signal_config_change() that followed has woken that worker.
C17_Witness ==
    \E w \in Workers :
        /\ announced /\ interval # DefaultInterval
        /\ wpc[w] = "woken" /\ wake[w] = "notify"
        /\ sleep_time[w] = DefaultInterval
        /\ manual_update_request = NoRequest /\ running /\ ~stopCalled

\* ---------------------------------------------------------------- C18
\* C18: an exception of a cycle that a manual_update call raises is the one
\* raised by the cycle that consumed that call's request: never one of a cycle
\* that consumed no request or another call's request.  Stated for the calls
\* whose request was not overwritten, on the runs in which the action's
\* execute is the only thing that raises (the TypeError of `raise None` is no
\* exception of a cycle).
C18_NoForeignException ==
    faults = 0 =>
        \A c \in Callers :
            (/\ ManualDone(c)
             /\ outcome[c].kind \notin {None, "TypeError"}
             /\ InSlot(c) \/ served[c] > 0)
            => outcome[c] = servedExc[c]

\* ---------------------------------------------------------------- C19
\* The request of c's current manual_update call was registered and then
\* overwritten in the slot by the other caller's registration.
Overwritten(c) == regCycle[c] > 0 /\ ~InSlot(c) /\ served[c] = 0

\* c's manual_update call is past refresh_event.wait().
Released(c) ==
    /\ op[c].name = "manual_update" /\ regCycle[c] > 0
    /\ cpc[c] \in {"m_read", "m_raise", "idle"}

\* C19, the race of two manual_update calls while stop() is never called: when
\* the request of one caller was overwritten by the other's, only the later
\* request is executed, and each of the two callers that is past its wait was
\* released by the completion of the cycle that executed it.  Stated on runs
\* without collaborator faults.
C19_BothReleasedByThatCycle ==
    (faults = 0 /\ ~stopCalled) =>
        \A c \in Callers : \A d \in Callers \ {c} :
            (Overwritten(c) /\ op[d].name = "manual_update" /\ regCycle[d] > 0) =>
                /\ Released(c) => (served[d] > 0 /\ relBy[c] = served[d])
                /\ Released(d) => (served[d] > 0 /\ relBy[d] = served[d])

\* ---------------------------------------------------------------- C20
\* C20: Ledger/device agreement, the Ledger's image_hash being the device's
\* fingerprint initially.  Whenever the lock is free (so in every state where
\* the only worker is inside condition.wait) the Ledger's image_hash is the
\* fingerprint of the last image display_image painted; a display_image that
\* succeeded keeps the lock, and the next step of that cycle replaces the
\* Ledger and calls write_config (which persists it or raises); the Ledger
\* changes only in a cycle that is past a display_image that succeeded or was
\* skipped for equal fingerprints.
C20_LedgerAgreesWithDevice ==
    [][/\ lock' = None => refresh_info'.image_hash = displayed'
       /\ \A w \in Workers :
            (wpc[w] = "display" /\ wpc'[w] = "ledger") =>
                (lock' = w /\ displayed' = image_hash[w])
       /\ \A w \in Workers :
            (wpc[w] = "ledger" /\ wpc'[w] # "ledger") =>
                /\ lock = w
                /\ refresh_info' = NewInfo(w)
                /\ persisted' = NewInfo(w) \/ (wpc'[w] = "except" /\ faults' = faults + 1)
       /\ refresh_info' # refresh_info =>
            \E w \in Workers :
                /\ wpc[w] = "ledger" /\ lock = w
                /\ displayed = image_hash[w]
                /\ refresh_info' = NewInfo(w)]_vars

\* A worker waits again after a cycle that painted a new image and replaced
\* the Ledger.
C20_Witness ==
    \E w \in Workers :
        /\ wpc[w] = "waiting" /\ lock = None
        /\ renders > 0 /\ faults = 0
        /\ refresh_info.action # None
        /\ refresh_info.image_hash = displayed
        /\ persisted = refresh_info

====
